---- MODULE Spec2Model ----
(***************************************************************************)
(* Message-Organizer (app.py): a LINE bot that logs every text message of  *)
(* a chat, keeps a per-chat config (keywords, daily_time, last_daily_run), *)
(* exports the day's messages into one txt per matched keyword, serves the *)
(* txt files behind a token, and runs the export from a minutely tick.     *)
(*                                                                         *)
(* A string is a sequence of characters; a character is one of the short   *)
(* strings of Chars below.  A command prefix of handle_message (such as    *)
(* "設定關鍵字") is one character of the model, written as a token.         *)
(***************************************************************************)
EXTENDS Integers, Sequences, FiniteSets, TLC

\* ------------------------------------------------------------------ bounds
MaxDay    == 2      \* calendar days 1..MaxDay
MaxMinute == 1      \* minutes of a day 0..MaxMinute (the values of HH:MM)
MaxEvents == 2      \* webhook events (text messages, postbacks) of one behaviour
MaxLog    == 2      \* records of a ledger drawn by InitExport

\* ------------------------------------------------------- program constants
FilenameKeywordMax == 50

\* --------------------------------------------------------------- universes
Chats   == {"Ca", "Cb"}
Days    == 1..MaxDay
Minutes == 0..MaxMinute

None == "None"

SP == "SP"      \* a blank
NL == "NL"      \* a line feed inside a message

\* command words of handle_message, one token each
SETKW   == "cmd_set_keyword"
DELKW   == "cmd_delete_keyword"
RUNNOW  == "cmd_run_now"
SETTIME == "cmd_set_daily_time"
DISABLE == "cmd_disable_daily"

\* Unicode code points, the order Python compares strings by
Ord(ch) ==
    CASE ch = NL  -> 10
      [] ch = SP  -> 32
      [] ch = "/" -> 47
      [] ch = "A" -> 65
      [] ch = "_" -> 95
      [] ch = "a" -> 97
      [] OTHER    -> 200

\* str.lower() on one character
LowerChar(ch) == IF ch = "A" THEN "a" ELSE ch

\* str.isspace() on one character (what strip() and \s match)
IsSpace(ch) == ch \in {SP, NL}

\* the characters of the class [\\/:*?"<>|] that occur in the model
IsPathHostile(ch) == ch = "/"

\* the two character classes safe_filename_keyword replaces
InClass(cls, ch) == IF cls = "hostile" THEN IsPathHostile(ch) ELSE IsSpace(ch)

RECURSIVE LStrip(_)
LStrip(s) ==
    IF s = << >> THEN << >>
    ELSE IF IsSpace(Head(s)) THEN LStrip(Tail(s)) ELSE s

RECURSIVE RStrip(_)
RStrip(s) ==
    IF s = << >> THEN << >>
    ELSE IF IsSpace(s[Len(s)]) THEN RStrip(SubSeq(s, 1, Len(s) - 1)) ELSE s

\* str.strip()
Strip(s) == RStrip(LStrip(s))

Lower(s) == [i \in 1..Len(s) |-> LowerChar(s[i])]

\* the match that ignores case
Contains_IgnoreCase(kw, t) ==
    \E i \in 1..(Len(t) - Len(kw) + 1) :
        Lower(SubSeq(t, i, i + Len(kw) - 1)) = Lower(kw)

\* kw in t : kw occurs in t as a contiguous run of characters
Contains(kw, t) ==
    \E i \in 1..(Len(t) - Len(kw) + 1) : SubSeq(t, i, i + Len(kw) - 1) = kw

\* s < t for Python strings: by code point, a proper prefix first
RECURSIVE StrLess(_, _)
StrLess(s, t) ==
    IF t = << >> THEN FALSE
    ELSE IF s = << >> THEN TRUE
    ELSE IF Ord(Head(s)) # Ord(Head(t)) THEN Ord(Head(s)) < Ord(Head(t))
    ELSE StrLess(Tail(s), Tail(t))

\* re.sub(r"C+", "_", s): every maximal run of characters of class cls
\* becomes one underscore
RECURSIVE SubRuns(_, _, _)
SubRuns(cls, s, inRun) ==
    IF s = << >> THEN << >>
    ELSE IF InClass(cls, Head(s))
         THEN (IF inRun THEN << >> ELSE <<"_">>) \o SubRuns(cls, Tail(s), TRUE)
         ELSE <<Head(s)>> \o SubRuns(cls, Tail(s), FALSE)

normalize_keyword(k) == Strip(k)

safe_filename_keyword(k0) ==
    LET k1 == Strip(k0)
        k2 == SubRuns("hostile", k1, FALSE)
        k3 == SubRuns("space", k2, FALSE)
    IN  IF Len(k3) > FilenameKeywordMax THEN SubSeq(k3, 1, FilenameKeywordMax) ELSE k3

\* "\n".join(lines) + "\n"
RECURSIVE JoinLines(_)
JoinLines(lines) ==
    IF lines = << >> THEN <<NL>>
    ELSE IF Len(lines) = 1 THEN lines[1] \o <<NL>>
    ELSE lines[1] \o <<NL>> \o JoinLines(Tail(lines))

\* the lines of a text file: the runs between line feeds
RECURSIVE FileLines(_, _)
FileLines(content, cur) ==
    IF content = << >> THEN (IF cur = << >> THEN << >> ELSE <<cur>>)
    ELSE IF Head(content) = NL THEN <<cur>> \o FileLines(Tail(content), << >>)
    ELSE FileLines(Tail(content), cur \o <<Head(content)>>)


\* ------------------------------------------------------------ the calendar
DaysPerMonth == 2

\* a clock reading: the calendar day and the minute of the day
Clocks == [day : Days, hm : Minutes]

\* strftime("%Y-%m-%d"): the day, written so that two days never agree
today_ymd(dt) == ToString(dt.day)

\* strftime("%Y%m%d")
today_compact(dt) == ToString(dt.day)

\* strftime("%Y-%m"): the month the day lies in
month_ym(dt) == ToString(1 + ((dt.day - 1) \div DaysPerMonth))

\* strftime("%H:%M"): two digits each, so two minutes never agree
hhmm(dt) == ToString(dt.hm)

\* what the ledger partition of a day is keyed by
DayKeys == {ToString(d) : d \in Days}

\* the HH:MM texts a user can send after the command word
\*   "bad"  : rejected by is_valid_hhmm (such as 9:00 or 24:00)
TimeTexts == {ToString(m) : m \in Minutes} \cup {"bad"}

is_valid_hhmm(s) == s # "bad"

\* ------------------------------------------------------------- the config
Absent  == "Absent"      \* configs/<chat_id>.json does not exist
Corrupt == "Corrupt"     \* the file exists and is no JSON object

Kw_a  == <<"a">>
Kw_sl == <<"/">>
Kw_us == <<"_">>
Keywords == {Kw_a, Kw_sl, Kw_us}

DefaultCfg == [keywords |-> << >>, daily_time |-> None, last_daily_run |-> None]

\* a config file: st is Absent, Corrupt or Json, obj the object a Json file holds
Json == "Json"
NoFile == [st |-> Absent, obj |-> DefaultCfg]
TornFile == [st |-> Corrupt, obj |-> DefaultCfg]

load_cfg(files, chat_id) ==
    IF files[chat_id].st = Absent THEN DefaultCfg
    ELSE IF files[chat_id].st = Corrupt THEN DefaultCfg
    ELSE files[chat_id].obj

save_cfg(files, chat_id, cfg) == [files EXCEPT ![chat_id] = [st |-> Json, obj |-> cfg]]

SeqToSet(s) == {s[i] : i \in 1..Len(s)}

\* the sequences that list every element of S once
Perms(S) ==
    {f \in [1..Cardinality(S) -> S] : \A x \in S : \E i \in DOMAIN f : f[i] = x}

\* sorted(S, key=lambda x: x.lower()): every order with keys ascending; the
\* order of two elements with equal keys is the iteration order of the set
SortedByLower(S) ==
    {f \in Perms(S) :
        \A i \in 1..(Len(f) - 1) : ~ StrLess(Lower(f[i + 1]), Lower(f[i]))}

\* the order sorted() gives S when full is the order it gives all keywords
RECURSIVE Restrict(_, _)
Restrict(full, S) ==
    IF full = << >> THEN << >>
    ELSE (IF Head(full) \in S THEN <<Head(full)>> ELSE << >>) \o Restrict(Tail(full), S)

\* [k for k in cfg["keywords"] if isinstance(k, str) and k.strip()], normalized
CleanKeywords(cfg) ==
    {normalize_keyword(k) : k \in {x \in SeqToSet(cfg.keywords) : Strip(x) # << >>}}

\* ------------------------------------------------------------- the ledger
\* logs/<chat_id>/<day>.jsonl as the sequence of its lines.  A line is
\*   "object"  : a JSON object, as append_log writes it, with its text
\*   "blank"   : nothing but white space
\*   "invalid" : no JSON (a record cut short by a crash, noise)
\*   "value"   : JSON that is no object (a number, a string, a list, null)
Record(t) == [form |-> "object", text |-> t]
BlankLine == [form |-> "blank", text |-> << >>]
InvalidLine == [form |-> "invalid", text |-> << >>]
ValueLine == [form |-> "value", text |-> << >>]

\* the append that opens the file for writing: what it held is lost
append_log_Rewrite(logs, chat_id, message_text, now) ==
    [logs EXCEPT ![chat_id][today_ymd(now)] = <<Record(message_text)>>]

append_log(logs, chat_id, message_text, now) ==
    [logs EXCEPT ![chat_id][today_ymd(now)] = Append(@, Record(message_text))]

\* lines 239-248 for one line: the texts it adds to the list
LineTexts(line) ==
    IF line.form # "object" \/ Strip(line.text) = << >> THEN << >>
    ELSE <<Strip(line.text)>>

\* line 246: obj.get raises when json.loads gave a value that is no dict,
\* outside the try of lines 242-245
ReadRaises(lines) == \E i \in 1..Len(lines) : lines[i].form = "value"

\* lines 236-248: the stripped, non-empty texts of the lines, in file order
RECURSIVE ReadTexts(_)
ReadTexts(lines) ==
    IF lines = << >> THEN << >>
    ELSE LineTexts(Head(lines)) \o ReadTexts(Tail(lines))

\* ------------------------------------------------------------- the export
\* a URL is its three parts; NoUrl is Python's None
NoUrl == [base |-> "", relpath |-> << >>, token |-> ""]

make_public_url(env, relpath) ==
    IF env.PUBLIC_BASE_URL = "" THEN NoUrl
    ELSE [base |-> env.PUBLIC_BASE_URL, relpath |-> relpath, token |-> env.FILE_TOKEN]

\* lines 268 and 274: "<ym>/<yyyymmdd>_<keyword>_<chat_id>.txt"
ArtifactPath(ym_folder, compact, fn_kw, chat_id) ==
    <<ym_folder, "/", compact, "_">> \o fn_kw \o <<"_", chat_id, ".txt">>

\* the write that appends to a file that exists
WriteText_Append(out, path, content) ==
    [p \in (DOMAIN out) \cup {path} |->
        IF p # path THEN out[p]
        ELSE IF path \in DOMAIN out THEN out[path] \o content ELSE content]

\* Path.write_text: the file at path holds content, whatever it held
WriteText(out, path, content) ==
    [p \in (DOMAIN out) \cup {path} |-> IF p = path THEN content ELSE out[p]]

\* no write fails: the empty string is no keyword
NoFail == [kw |-> << >>, torn |-> FALSE]

\* lines 266-284: the artifact of keyword kw is written and joins the list;
\* acc = [out, outputs, raised]
WriteArtifact(env, kw, relpath, matched_lines, acc) ==
    [out |-> WriteText(acc.out, relpath, JoinLines(matched_lines)),
     outputs |-> Append(acc.outputs, [keyword |-> kw, relpath |-> relpath,
                                      url |-> make_public_url(env, relpath)]),
     raised |-> FALSE]

\* line 272 raises: the loop is left, the file emptied when the write had
\* begun (torn)
WriteFails(relpath, torn, acc) ==
    [out |-> IF torn THEN WriteText(acc.out, relpath, << >>) ELSE acc.out,
     outputs |-> acc.outputs,
     raised |-> TRUE]

\* lines 262-284: one round of the loop, for keyword kw with its matches
KeywordStep(env, kw, relpath, matched_lines, fail, acc) ==
    IF matched_lines = << >> THEN acc
    ELSE IF fail.kw = kw THEN WriteFails(relpath, fail.torn, acc)
    ELSE WriteArtifact(env, kw, relpath, matched_lines, acc)

\* lines 261-284: the loop over the keywords kws; fail.kw is the keyword
\* whose write_text raises (NoFail: none does)
RECURSIVE KeywordLoop(_, _, _, _, _, _, _, _)
KeywordLoop(env, chat_id, kws, texts, ym_folder, compact, fail, acc) ==
    IF kws = << >> \/ acc.raised THEN acc
    ELSE KeywordLoop(env, chat_id, Tail(kws), texts, ym_folder, compact, fail,
           KeywordStep(env, Head(kws),
               ArtifactPath(ym_folder, compact, safe_filename_keyword(Head(kws)), chat_id),
               SelectSeq(texts, LAMBDA t : Contains(Head(kws), t)),
               fail, acc))

\* the export that forgets the test for an empty keyword list
NoKeywordsConfigured_Never(kws) == FALSE

\* line 223: if not kws
NoKeywordsConfigured(kws) == kws = << >>

\* lines 286-312: what the call returns after the loop has left acc
Summary(base, total, acc) ==
    IF acc.raised
    THEN [base EXCEPT !.ok = FALSE, !.kind = "Raised", !.total = total,
                      !.out = acc.out, !.raised = TRUE]
    ELSE IF acc.outputs = << >>
    THEN [base EXCEPT !.kind = "NoMatches", !.total = total]
    ELSE [base EXCEPT !.kind = "Exported", !.total = total,
                      !.outputs = acc.outputs, !.out = acc.out]

\* lines 223-312: the export of the texts of the day under the keywords kws;
\* bad when reading the ledger raises
ExportTexts(env, out, chat_id, now, fail, kws, texts, bad, base) ==
    IF NoKeywordsConfigured(kws)
    THEN [base EXCEPT !.ok = FALSE, !.kind = "NoKeywordsConfigured"]
    ELSE IF bad
    THEN [base EXCEPT !.ok = FALSE, !.kind = "Raised", !.raised = TRUE]
    ELSE IF texts = << >>
    THEN [base EXCEPT !.kind = "NothingToExport"]
    ELSE Summary(base, Len(texts),
                 KeywordLoop(env, chat_id, kws, texts, month_ym(now),
                             today_compact(now), fail,
                             [out |-> out, outputs |-> << >>, raised |-> FALSE]))

\* what the call returns when nothing has been exported
BaseResult(manual, day, kws, out) ==
    [ok |-> TRUE, kind |-> "", manual |-> manual, day |-> day, total |-> 0,
     keywords |-> kws, outputs |-> << >>, out |-> out, raised |-> FALSE]

\* lines 215-221: the keywords of the stored config, cleaned, in the order
\* full that sorted() gives them
SortedKeywords(cfgs, chat_id, full) == Restrict(full, CleanKeywords(load_cfg(cfgs, chat_id)))

\* summarize_today_per_keyword(chat_id, manual=...) run on the stored files:
\* full is the order sorted() gives the keywords, now the clock.  The result
\* holds what the call returns (ok, the summary as its kind and numbers,
\* outputs), the export directory after it, and whether it raised instead of
\* returning.  A day without a ledger file and a ledger without a text both
\* return "nothing to export" (lines 231-233, 250-252).
summarize_today_per_keyword(env, cfgs, logs, out, chat_id, manual, full, now, fail) ==
    ExportTexts(env, out, chat_id, now, fail,
                SortedKeywords(cfgs, chat_id, full),
                ReadTexts(logs[chat_id][today_ymd(now)]),
                ReadRaises(logs[chat_id][today_ymd(now)]),
                BaseResult(manual, today_ymd(now), SortedKeywords(cfgs, chat_id, full), out))

\* what a call returned, without the export directory it left
Returned(r) == [ok |-> r.ok, kind |-> r.kind, manual |-> r.manual, day |-> r.day,
                total |-> r.total, keywords |-> r.keywords, outputs |-> r.outputs,
                raised |-> r.raised]

NoResult == [ok |-> FALSE, kind |-> "NotRun", manual |-> FALSE, day |-> None,
             total |-> 0, keywords |-> << >>, outputs |-> << >>, raised |-> FALSE]

\* ------------------------------------------------------------------ state
VARIABLES
    clock,      \* what now_tpe() returns
    env,        \* PUBLIC_BASE_URL and FILE_TOKEN of the process
    cfgFile,    \* configs/<chat_id>.json, by chat
    logFile,    \* logs/<chat_id>/<day>.jsonl, by chat and day
    outFile,    \* the files under exports/, by relative path
    events,     \* the number of webhook events handled so far
    issued,     \* history: the URLs the exports have returned, each with
                \* the clock reading at which it was returned
    runs,       \* history: by chat and day, the minutes at which the tick
                \* called summarize_today_per_keyword(manual=False)
    lastOp,     \* history: the handler that ran last, with its input, what
                \* it found and what it answered
    threads     \* by thread, the handler it is in the middle of: its
                \* position and its local variables

vars == <<clock, env, cfgFile, logFile, outFile, events, issued, runs, lastOp, threads>>

\* the thread of the web server that handles a request, the thread of the
\* scheduler that runs the tick (lines 832-834, 851)
Tids == {"web", "sched"}

\* a thread that is in no handler.  now is the clock reading of the tick
\* (line 777), day and ym_folder are the locals of the export (230, 254).
Idle == [pc |-> "idle", op |-> "none", chat |-> None, cfg |-> DefaultCfg,
         old |-> NoFile, kws |-> << >>, texts |-> << >>, outputs |-> << >>,
         order |-> << >>, path |-> << >>, content |-> << >>,
         now |-> [day |-> 0, hm |-> 0], day |-> None, ym_folder |-> None]

Envs == [PUBLIC_BASE_URL : {"", "https://bot"}, FILE_TOKEN : {"", "s3cret"}]

\* a handler whose answer no property reads
Other == [op |-> "other"]

\* the process starts on empty data directories, link and token configured
Init ==
    /\ clock = [day |-> 1, hm |-> 0]
    /\ env = [PUBLIC_BASE_URL |-> "https://bot", FILE_TOKEN |-> "s3cret"]
    /\ cfgFile = [c \in Chats |-> NoFile]
    /\ logFile = [c \in Chats |-> [d \in DayKeys |-> << >>]]
    /\ outFile = << >>
    /\ events = 0
    /\ issued = {}
    /\ runs = [c \in Chats |-> [d \in DayKeys |-> << >>]]
    /\ lastOp = [op |-> "init"]
    /\ threads = [t \in Tids |-> Idle]

\* time passes: the next minute, or the first minute of the next day
AdvanceClock ==
    /\ \/ /\ clock.hm < MaxMinute
          /\ clock' = [clock EXCEPT !.hm = @ + 1]
       \/ /\ clock.hm = MaxMinute
          /\ clock.day < MaxDay
          /\ clock' = [day |-> clock.day + 1, hm |-> 0]
    /\ lastOp' = [op |-> "clock"]
    /\ UNCHANGED <<env, cfgFile, logFile, outFile, events, issued, runs, threads>>

\* the URLs of a returned result (o["url"] is None without PUBLIC_BASE_URL)
UrlsOf(outputs) == {outputs[i].url : i \in 1..Len(outputs)} \ {NoUrl}

\* the URLs as the history keeps them: with the clock reading of the call
IssuedAt(urls, now) ==
    {[base |-> u.base, relpath |-> u.relpath, token |-> u.token, at |-> now] : u \in urls}

\* ------------------------------------------------------- handle_message
\* lines 678-694
SetKeyword(chat_id, text) ==
    LET kw == normalize_keyword(Strip(Tail(text)))
        cfg == load_cfg(cfgFile, chat_id)
    IN  IF kw = << >>
        THEN /\ UNCHANGED <<cfgFile, outFile, issued, runs>>
             /\ lastOp' = Other
        ELSE \E full \in SortedByLower(Keywords) :
             /\ cfgFile' = save_cfg(cfgFile, chat_id,
                   [cfg EXCEPT !.keywords = Restrict(full, SeqToSet(@) \cup {kw})])
             /\ UNCHANGED <<outFile, issued, runs>>
             /\ lastOp' = [op |-> "set_keyword", chat |-> chat_id]

\* lines 713-722 and 600-609
DeleteKeyword(chat_id, kw0) ==
    LET kw == Strip(kw0)
        cfg == load_cfg(cfgFile, chat_id)
    IN  IF kw = << >>
        THEN /\ UNCHANGED <<cfgFile, outFile, issued, runs>>
             /\ lastOp' = Other
        ELSE /\ cfgFile' = save_cfg(cfgFile, chat_id,
                             [cfg EXCEPT !.keywords = SelectSeq(@, LAMBDA k : k # kw)])
             /\ UNCHANGED <<outFile, issued, runs>>
             /\ lastOp' = [op |-> "delete_keyword", chat |-> chat_id]

\* the export on request that marks the day as run, as the tick does
RunNow_MarksRun(chat_id, logs, again) ==
    \E full \in SortedByLower(Keywords) :
      LET r == summarize_today_per_keyword(env, cfgFile, logs, outFile, chat_id,
                                           TRUE, full, clock, NoFail)
      IN  /\ outFile' = r.out
          /\ issued' = issued \cup IssuedAt(UrlsOf(r.outputs), clock)
          /\ cfgFile' = save_cfg(cfgFile, chat_id,
                 [load_cfg(cfgFile, chat_id) EXCEPT !.last_daily_run = today_ymd(clock)])
          /\ UNCHANGED runs
          /\ lastOp' = [op |-> "run_now", chat |-> chat_id, res |-> Returned(r),
                        was |-> cfgFile[chat_id].st, before |-> outFile,
                        prev |-> NoResult]

\* lines 725-740 and 611-628: the export on request; the pushes that follow
\* it change no file.  logs is the ledger the export reads, again whether
\* the ledger is the one the handler before this one left.
RunNow(chat_id, logs, again) ==
    \E full \in SortedByLower(Keywords) :
      LET r == summarize_today_per_keyword(env, cfgFile, logs, outFile, chat_id,
                                           TRUE, full, clock, NoFail)
      IN  /\ outFile' = r.out
          /\ issued' = issued \cup IssuedAt(UrlsOf(r.outputs), clock)
          /\ UNCHANGED <<cfgFile, runs>>
          /\ lastOp' = [op |-> "run_now", chat |-> chat_id, res |-> Returned(r),
                        was |-> cfgFile[chat_id].st, before |-> outFile,
                        prev |-> IF again /\ lastOp.op = "run_now" /\ lastOp.chat = chat_id
                                 THEN lastOp.res ELSE NoResult]

\* lines 743-756
SetDailyTime(chat_id, text) ==
    LET t == Strip(Tail(text))
        cfg == load_cfg(cfgFile, chat_id)
    IN  IF ~ (Len(t) = 1 /\ is_valid_hhmm(t[1]))
        THEN /\ UNCHANGED <<cfgFile, outFile, issued, runs>>
             /\ lastOp' = Other
        ELSE /\ cfgFile' = save_cfg(cfgFile, chat_id, [cfg EXCEPT !.daily_time = t[1]])
             /\ UNCHANGED <<outFile, issued, runs>>
             /\ lastOp' = [op |-> "set_daily_time", chat |-> chat_id]

\* lines 758-762 and 635-639
DisableDaily(chat_id) ==
    LET cfg == load_cfg(cfgFile, chat_id)
    IN  /\ cfgFile' = save_cfg(cfgFile, chat_id, [cfg EXCEPT !.daily_time = None])
        /\ UNCHANGED <<outFile, issued, runs>>
        /\ lastOp' = [op |-> "disable_daily", chat |-> chat_id]

\* the handler that stores what it has loaded
ReadOnly_Saves(chat_id) ==
    /\ cfgFile' = save_cfg(cfgFile, chat_id, load_cfg(cfgFile, chat_id))
    /\ UNCHANGED <<outFile, issued, runs>>
    /\ lastOp' = [op |-> "read", chat |-> chat_id, was |-> cfgFile[chat_id].st,
                  cfg |-> load_cfg(cfgFile, chat_id)]

\* lines 586-595, 641-646, 697-710: a handler that loads the config and
\* replies with what it holds; was is the state of the file it found
ReadOnly(chat_id) ==
    /\ UNCHANGED <<cfgFile, outFile, issued, runs>>
    /\ lastOp' = [op |-> "read", chat |-> chat_id, was |-> cfgFile[chat_id].st,
                  cfg |-> load_cfg(cfgFile, chat_id)]

handle_message(chat_id, raw) ==
    LET text == Strip(raw)
        logs == append_log(logFile, chat_id, text, clock)
    IN  /\ events < MaxEvents
        /\ events' = events + 1
        /\ UNCHANGED <<clock, env, threads>>
        /\ IF text = << >>
           THEN /\ UNCHANGED <<cfgFile, logFile, outFile, issued, runs>>
                /\ lastOp' = Other
           ELSE /\ logFile' = logs
                /\ IF Head(text) = SETKW THEN SetKeyword(chat_id, text)
                   ELSE IF text = <<DELKW>> THEN ReadOnly(chat_id)
                   ELSE IF Len(text) > 1 /\ SubSeq(text, 1, 2) = <<DELKW, SP>>
                        THEN DeleteKeyword(chat_id, Tail(text))
                   ELSE IF text = <<RUNNOW>> THEN RunNow(chat_id, logs, FALSE)
                   ELSE IF Head(text) = SETTIME THEN SetDailyTime(chat_id, text)
                   ELSE IF text = <<DISABLE>> THEN DisableDaily(chat_id)
                   ELSE /\ UNCHANGED <<cfgFile, outFile, issued, runs>>
                        /\ lastOp' = Other

\* the texts a user sends: the commands that read or change the config, a
\* text that is no command, a blank text
MessageTexts ==
    {<<SETKW, SP>> \o Kw_a, <<DELKW, SP>> \o Kw_a, <<RUNNOW>>, <<DISABLE>>}
    \cup {<<SETTIME, SP, t>> : t \in TimeTexts}
    \cup {<<"a", SP>>, <<SP>>}

Message == \E c \in Chats, raw \in MessageTexts : handle_message(c, raw)

\* ------------------------------------------------------ handle_postback
\* the postback data after parse_postback_data: the action and its kw
PostbackData ==
    [action : {"list_keyword", "run_now", "set_daily_time", "disable_daily"}, kw : {<< >>}]
    \cup [action : {"del_kw"}, kw : {Kw_a, << >>}]

handle_postback(chat_id, p) ==
    /\ events < MaxEvents
    /\ events' = events + 1
    /\ UNCHANGED <<clock, env, logFile, threads>>
    /\ IF p.action \in {"list_keyword", "delete_keyword", "show_daily"}
       THEN ReadOnly(chat_id)
       ELSE IF p.action = "del_kw" THEN DeleteKeyword(chat_id, p.kw)
       ELSE IF p.action = "run_now" THEN RunNow(chat_id, logFile, TRUE)
       ELSE IF p.action = "disable_daily" THEN DisableDaily(chat_id)
       ELSE /\ UNCHANGED <<cfgFile, outFile, issued, runs>>
            /\ lastOp' = Other

Postback == \E c \in Chats, p \in PostbackData : handle_postback(c, p)

\* -------------------------------------------------- tick_daily_scheduler
\* what goes wrong in one tick: nothing (kind "none"), or for one chat
\*   "export" : write_text of the artifact of keyword kw raises
\*   "push"   : push_text of the summary raises
\*   "save"   : save_cfg raises
\* torn tells whether the failed write had already emptied the file
NoFault == [chat |-> None, kind |-> "none", kw |-> << >>, torn |-> FALSE]

Faults ==
    [chat : Chats, kind : {"export"}, kw : Keywords, torn : BOOLEAN]
    \cup [chat : Chats, kind : {"push"}, kw : {<< >>}, torn : {FALSE}]
    \cup [chat : Chats, kind : {"save"}, kw : {<< >>}, torn : BOOLEAN]

\* runs with one more call at minute hm; the history keeps two calls a day
NoteRun(rs, chat_id, day, hm) ==
    [rs EXCEPT ![chat_id][day] = IF Len(@) < 2 THEN Append(@, hm) ELSE @]

\* the test without the last_daily_run guard
IsDue_NoGuard(cfg, now) ==
    /\ cfg.daily_time # None
    /\ cfg.daily_time = hhmm(now)

\* lines 784-792: the tick runs the export of this chat
IsDue(cfg, now) ==
    /\ cfg.daily_time # None
    /\ cfg.daily_time = hhmm(now)
    /\ cfg.last_daily_run # today_ymd(now)

\* lines 794-818: the tick has called the export of chat_id, which gave r.
\* st = [cfg, out, issued, runs, res, raised]: the files, the history and,
\* by chat, what the export returned; raised when an exception has left the
\* loop.  kind is what goes wrong for this conversation.
TickExported(now, chat_id, kind, torn, st, r) ==
    [cfg |-> IF r.raised THEN st.cfg
             ELSE IF kind = "save"
             THEN (IF torn THEN [st.cfg EXCEPT ![chat_id] = TornFile] ELSE st.cfg)
             ELSE save_cfg(st.cfg, chat_id,
                    [load_cfg(st.cfg, chat_id) EXCEPT !.last_daily_run = today_ymd(now)]),
     out |-> r.out,
     issued |-> IF r.raised \/ kind = "push" THEN st.issued
                ELSE st.issued \cup IssuedAt(UrlsOf(r.outputs), now),
     runs |-> NoteRun(st.runs, chat_id, today_ymd(now), now.hm),
     res |-> [st.res EXCEPT ![chat_id] = Returned(r)],
     raised |-> r.raised \/ kind = "save"]

\* lines 782-818: one round of the loop, for the config of chat_id
TickChat(e, logs, now, chat_id, full, fault, st) ==
    IF ~ IsDue(load_cfg(st.cfg, chat_id), now) THEN st
    ELSE TickExported(now, chat_id,
             IF fault.chat = chat_id THEN fault.kind ELSE "none", fault.torn, st,
             summarize_today_per_keyword(e, st.cfg, logs, st.out, chat_id, FALSE,
                 full, now,
                 IF fault.chat = chat_id /\ fault.kind = "export"
                 THEN [kw |-> fault.kw, torn |-> fault.torn] ELSE NoFail))

\* lines 781-818: the loop over configs/*.json in the order the directory
\* lists them, until an exception leaves it
RECURSIVE TickLoop(_, _, _, _, _, _, _)
TickLoop(e, logs, now, order, full, fault, st) ==
    IF order = << >> \/ st.raised THEN st
    ELSE TickLoop(e, logs, now, Tail(order), full, fault,
                  TickChat(e, logs, now, Head(order), full, fault, st))

\* the fault strikes: its chat is due, and for a failing write the keyword
\* is one whose artifact the export writes
Strikes(fault, now) ==
    /\ IsDue(load_cfg(cfgFile, fault.chat), now)
    /\ fault.kind = "export" =>
         /\ fault.kw \in CleanKeywords(load_cfg(cfgFile, fault.chat))
         /\ \E t \in SeqToSet(ReadTexts(logFile[fault.chat][today_ymd(now)])) :
              Contains(fault.kw, t)

Tick(fault) ==
    \E order \in Perms({c \in Chats : cfgFile[c].st # Absent}) :
    \E full \in SortedByLower(Keywords) :
      /\ LET st == TickLoop(env, logFile, clock, order, full, fault,
                     [cfg |-> cfgFile, out |-> outFile, issued |-> issued, runs |-> runs,
                      res |-> [c \in Chats |-> NoResult], raised |-> FALSE])
         IN  /\ cfgFile' = st.cfg
             /\ outFile' = st.out
             /\ issued' = st.issued
             /\ runs' = st.runs
             /\ lastOp' = [op |-> "tick", pre |-> cfgFile, res |-> st.res,
                           raised |-> st.raised, fault |-> fault]
      /\ UNCHANGED <<clock, env, logFile, events, threads>>

tick_daily_scheduler == Tick(NoFault)

FaultyTick == \E fault \in Faults : Strikes(fault, clock) /\ Tick(fault)

Next == AdvanceClock \/ Message \/ Postback \/ tick_daily_scheduler

Spec == Init /\ [][Next]_vars

NextFault == Next \/ FaultyTick

SpecFault == Init /\ [][NextFault]_vars

\* ---------------------------------------------------------- download_file
\* the status codes of GET /files/<relpath>
Ok200 == 200
BadRequest400 == 400
Forbidden403 == 403
NotFound404 == 404

\* A path is the sequence of its segments, a segment a string.  OUT_DIR is
\* <BOT_DATA_DIR>/exports, resolved (lines 62-65)
BaseDirSegs == << <<"bot_data">> >>
OutDirSegs == BaseDirSegs \o << <<"exports">> >>

\* the files the machine holds outside exports/: the program, the config of
\* a conversation, and a file in a directory beside exports/ whose name
\* begins with "exports"
OutsideFiles ==
    ( << <<"app.py">> >> :> <<"import", NL>> ) @@
    ( BaseDirSegs \o << <<"configs">>, <<"Ca", ".json">> >> :> <<"{", "}">> ) @@
    ( BaseDirSegs \o << <<"exports", "_old">>, <<"secret.txt">> >> :> <<"secret", NL>> )

\* the segments of a path string: the runs between slashes, empty runs and
\* "." dropped as pathlib drops them
RECURSIVE SplitPath(_, _)
SplitPath(s, cur) ==
    IF s = << >> THEN (IF cur \in {<< >>, <<".">>} THEN << >> ELSE <<cur>>)
    ELSE IF Head(s) = "/"
         THEN (IF cur \in {<< >>, <<".">>} THEN << >> ELSE <<cur>>) \o SplitPath(Tail(s), << >>)
         ELSE SplitPath(Tail(s), cur \o <<Head(s)>>)

\* OUT_DIR / relpath: an absolute relpath replaces OUT_DIR
Joined(relpath) ==
    IF relpath # << >> /\ Head(relpath) = "/" THEN SplitPath(relpath, << >>)
    ELSE OutDirSegs \o SplitPath(relpath, << >>)

\* Path.resolve(): every ".." removes the segment before it (none at the root)
RECURSIVE Resolve(_, _)
Resolve(segs, acc) ==
    IF segs = << >> THEN acc
    ELSE IF Head(segs) = <<"..">>
         THEN Resolve(Tail(segs), IF acc = << >> THEN << >> ELSE SubSeq(acc, 1, Len(acc) - 1))
         ELSE Resolve(Tail(segs), Append(acc, Head(segs)))

\* str(path) of an absolute path
RECURSIVE PathStr(_)
PathStr(segs) ==
    IF segs = << >> THEN << >>
    ELSE <<"/">> \o Head(segs) \o PathStr(Tail(segs))

\* the path string of a path below exports/, as the export names its files
RECURSIVE RelStr(_)
RelStr(segs) ==
    IF segs = << >> THEN << >>
    ELSE IF Len(segs) = 1 THEN Head(segs)
    ELSE Head(segs) \o <<"/">> \o RelStr(Tail(segs))

\* str.startswith
StartsWith(s, prefix) == Len(s) >= Len(prefix) /\ SubSeq(s, 1, Len(prefix)) = prefix

\* the target is exports/ or lies below it
InOutDir(target) == StartsWith(target, OutDirSegs)

\* target.exists() and target.is_file()
IsFile(out, target) ==
    IF InOutDir(target) THEN RelStr(SubSeq(target, Len(OutDirSegs) + 1, Len(target))) \in DOMAIN out
    ELSE target \in DOMAIN OutsideFiles

\* what send_file sends
FileContent(out, target) ==
    IF InOutDir(target) THEN out[RelStr(SubSeq(target, Len(OutDirSegs) + 1, Len(target)))]
    ELSE OutsideFiles[target]

\* lines 523-533: the answer for the resolved target
ServeTarget(out, target) ==
    IF ~ StartsWith(PathStr(target), PathStr(OutDirSegs))
    THEN [status |-> BadRequest400, body |-> << >>]
    ELSE IF ~ IsFile(out, target) THEN [status |-> NotFound404, body |-> << >>]
    ELSE [status |-> Ok200, body |-> FileContent(out, target)]

\* lines 512-533: the status and the body GET /files/<relpath>?token=<token>
\* answers with
download_file(e, out, relpath, token) ==
    IF e.FILE_TOKEN # "" /\ token # e.FILE_TOKEN
    THEN [status |-> Forbidden403, body |-> << >>]
    ELSE ServeTarget(out, Resolve(Joined(relpath), << >>))

\* the paths a client asks for: those of the files, one of no file, paths
\* that climb out of exports/ (to the program, to the directory beside
\* exports/), an absolute path, a path that climbs and returns
RequestPaths ==
    (DOMAIN outFile)
    \cup {<<"nofile.txt">>, <<"..", "/", "..", "/", "app.py">>,
          <<"..", "/", "exports", "_old", "/", "secret.txt">>,
          <<"/", "bot_data", "/", "configs", "/", "Ca", ".json">>}
    \cup {<<"..", "/", "exports", "/">> \o p : p \in DOMAIN outFile}

\* the tokens a client sends: none, a guess, those of the links it was sent
RequestTokens == {"", "guess"} \cup {u.token : u \in issued}

Download ==
    \E relpath \in RequestPaths, token \in RequestTokens :
      LET a == download_file(env, outFile, relpath, token)
      IN  /\ lastOp' = [op |-> "download", relpath |-> relpath, token |-> token,
                        status |-> a.status, body |-> a.body]
          /\ UNCHANGED <<clock, env, cfgFile, logFile, outFile, events, issued, runs, threads>>

\* ------------------------------------- the export on stored conversations
\* the texts of the ledger of the day: one line, two words of which one
\* holds a capital, two lines
PlainTexts == {<<"a">>, <<"A", "/">>, <<"a", NL, "_">>}

\* 5 messages: 2 hold the keyword a, 1 holds the keyword _, 2 hold neither
FiveMessages == << <<"a">>, <<"A">>, <<"_">>, <<"a">>, <<"A">> >>

AsLedger(texts) == [i \in 1..Len(texts) |-> Record(texts[i])]

Ledgers ==
    {AsLedger(t) : t \in UNION {[1..n -> PlainTexts] : n \in 0..MaxLog}}
    \cup {AsLedger(FiveMessages)}

\* what the other conversation and the days before have logged
OtherLedger == AsLedger(<< <<"_", "a">> >>)
EarlierLedger == AsLedger(<< <<"a", "/", "_">> >>)

\* the process runs on the data of earlier days: conversation Ca has any
\* keywords and any ledger of today, conversation Cb no config and a ledger
InitExport ==
    /\ clock = [day |-> MaxDay, hm |-> 0]
    /\ env \in Envs
    /\ \E S \in SUBSET Keywords, full \in SortedByLower(Keywords) :
         cfgFile = [c \in Chats |->
                      IF c = "Ca"
                      THEN [st |-> Json,
                            obj |-> [DefaultCfg EXCEPT !.keywords = Restrict(full, S)]]
                      ELSE NoFile]
    /\ \E today \in Ledgers :
         logFile = [c \in Chats |-> [d \in DayKeys |->
                      IF d # ToString(MaxDay) THEN EarlierLedger
                      ELSE IF c = "Ca" THEN today ELSE OtherLedger]]
    /\ outFile = << >>
    /\ events = 0
    /\ issued = {}
    /\ runs = [c \in Chats |-> [d \in DayKeys |-> << >>]]
    /\ lastOp = [op |-> "init"]
    /\ threads = [t \in Tids |-> Idle]

ExportRequest == \E c \in Chats : handle_postback(c, [action |-> "run_now", kw |-> << >>])

NextExport == ExportRequest \/ Download

SpecExport == InitExport /\ [][NextExport]_vars

\* ------------------------------------------------- the links as time passes
\* conversation Ca has two keywords and texts of today that hold them; the
\* server runs with any PUBLIC_BASE_URL and FILE_TOKEN
InitLink ==
    /\ clock = [day |-> MaxDay, hm |-> 0]
    /\ env \in Envs
    /\ cfgFile = [c \in Chats |->
                   IF c = "Ca"
                   THEN [st |-> Json, obj |-> [DefaultCfg EXCEPT !.keywords = <<Kw_us, Kw_a>>]]
                   ELSE NoFile]
    /\ logFile = [c \in Chats |-> [d \in DayKeys |->
                    IF d # ToString(MaxDay) THEN EarlierLedger
                    ELSE IF c = "Ca" THEN AsLedger(<< <<"a">>, <<"_", "a">> >>)
                    ELSE OtherLedger]]
    /\ outFile = << >>
    /\ events = 0
    /\ issued = {}
    /\ runs = [c \in Chats |-> [d \in DayKeys |-> << >>]]
    /\ lastOp = [op |-> "init"]
    /\ threads = [t \in Tids |-> Idle]

\* a link is used some time after it was sent
NextLink == ExportRequest \/ Download \/ AdvanceClock

SpecLink == InitLink /\ [][NextLink]_vars

\* ------------------------------------------ the export on a damaged ledger
\* the lines a ledger file can hold: records whose text holds the keyword a
\* or does not, and the lines that are no record
StoredLines == {Record(<<"a">>), Record(<<"A">>), BlankLine, InvalidLine, ValueLine}

\* conversation Ca has the keyword a and, as today's ledger, any lines;
\* conversation Cb has no config
InitLedger ==
    /\ clock = [day |-> MaxDay, hm |-> 0]
    /\ env \in Envs
    /\ cfgFile = [c \in Chats |->
                   IF c = "Ca"
                   THEN [st |-> Json, obj |-> [DefaultCfg EXCEPT !.keywords = <<Kw_a>>]]
                   ELSE NoFile]
    /\ \E today \in UNION {[1..n -> StoredLines] : n \in 0..MaxLog} :
         logFile = [c \in Chats |-> [d \in DayKeys |->
                      IF d # ToString(MaxDay) THEN EarlierLedger
                      ELSE IF c = "Ca" THEN today ELSE OtherLedger]]
    /\ outFile = << >>
    /\ events = 0
    /\ issued = {}
    /\ runs = [c \in Chats |-> [d \in DayKeys |-> << >>]]
    /\ lastOp = [op |-> "init"]
    /\ threads = [t \in Tids |-> Idle]

NextLedger == ExportRequest

SpecLedger == InitLedger /\ [][NextLedger]_vars

\* ------------------------------------------------ handlers running at once
\* The web server handles a request in its thread while the scheduler runs
\* the tick in its own (lines 832-834, 851); no lock is taken anywhere.  A
\* handler is a sequence of steps, one per file operation, and the steps of
\* the two threads follow one another in any order.  write_text is two
\* steps: open, which empties the file, and write, which puts the content
\* at the start of the file.

\* the bytes of a file after content was written over its start
Overlay(file, content) == content \o SubSeq(file, Len(content) + 1, Len(file))

\* lines 215-252: the export has loaded the config, read the date (230) and
\* the ledger partition of that date, and stands before month_ym() (254);
\* without keywords or texts it has returned (223-228, 232-233, 251-252)
BeginExport(op, chat_id, cfg, order, kws, day, texts, now) ==
    [Idle EXCEPT !.pc = IF kws = << >> \/ texts = << >> THEN "loop" ELSE "month",
                 !.op = op, !.chat = chat_id, !.cfg = cfg,
                 !.order = order, !.texts = texts, !.day = day, !.now = now,
                 !.kws = IF texts = << >> THEN << >> ELSE kws]

\* lines 611-612: the web thread takes a run_now postback
StartRunNow(chat_id) ==
    /\ threads.web.pc = "idle"
    /\ events < MaxEvents
    /\ events' = events + 1
    /\ \E full \in SortedByLower(Keywords) :
         threads' = [threads EXCEPT !.web =
                       BeginExport("run_now", chat_id, DefaultCfg, << >>,
                                   SortedKeywords(cfgFile, chat_id, full),
                                   today_ymd(clock),
                                   ReadTexts(logFile[chat_id][today_ymd(clock)]),
                                   Idle.now)]
    /\ lastOp' = [op |-> "begin", by |-> "run_now", chat |-> chat_id]
    /\ UNCHANGED <<clock, env, cfgFile, logFile, outFile, issued, runs>>

\* the config a postback command stores, from the config it loaded
CommandCfg(action, cfg) ==
    IF action = "del_kw" THEN [cfg EXCEPT !.keywords = SelectSeq(@, LAMBDA k : k # Kw_a)]
    ELSE [cfg EXCEPT !.daily_time = None]

\* lines 600-607 and 635-637: the web thread takes a del_kw (of keyword a)
\* or disable_daily postback, loads the config and changes its copy
StartCommand(chat_id, action) ==
    /\ threads.web.pc = "idle"
    /\ events < MaxEvents
    /\ events' = events + 1
    /\ threads' = [threads EXCEPT !.web =
                     [Idle EXCEPT !.pc = "save_open", !.op = action, !.chat = chat_id,
                                  !.cfg = CommandCfg(action, load_cfg(cfgFile, chat_id))]]
    /\ lastOp' = [op |-> "begin", by |-> action, chat |-> chat_id]
    /\ UNCHANGED <<clock, env, cfgFile, logFile, outFile, issued, runs>>

\* lines 586-595: the web thread takes a list_keyword postback
StartRead(chat_id) ==
    /\ threads.web.pc = "idle"
    /\ events < MaxEvents
    /\ events' = events + 1
    /\ ReadOnly(chat_id)
    /\ UNCHANGED <<clock, env, logFile, threads>>

\* lines 777-781: the scheduler thread enters the tick, reads the clock
\* once and lists configs/
StartTick ==
    /\ threads.sched.pc = "idle"
    /\ \E order \in Perms({c \in Chats : cfgFile[c].st # Absent}) :
         threads' = [threads EXCEPT !.sched =
                       [Idle EXCEPT !.pc = "tick_next", !.op = "tick", !.order = order,
                                    !.now = clock]]
    /\ lastOp' = [op |-> "begin", by |-> "tick", chat |-> None]
    /\ UNCHANGED <<clock, env, cfgFile, logFile, outFile, events, issued, runs>>

\* lines 781-794: the tick takes the next config of the list, loads it and,
\* when it is due, calls the export; with the list at its end it returns
TickNext ==
    /\ threads.sched.pc = "tick_next"
    /\ UNCHANGED <<clock, env, cfgFile, logFile, outFile, events, issued>>
    /\ IF threads.sched.order = << >>
       THEN /\ threads' = [threads EXCEPT !.sched = Idle]
            /\ lastOp' = [op |-> "tick_done"]
            /\ UNCHANGED runs
       ELSE IF ~ IsDue(load_cfg(cfgFile, Head(threads.sched.order)), threads.sched.now)
       THEN /\ threads' = [threads EXCEPT !.sched.order = Tail(@)]
            /\ lastOp' = [op |-> "tick_skip"]
            /\ UNCHANGED runs
       ELSE /\ \E full \in SortedByLower(Keywords) :
                 threads' = [threads EXCEPT !.sched =
                     BeginExport("tick", Head(threads.sched.order),
                         load_cfg(cfgFile, Head(threads.sched.order)),
                         Tail(threads.sched.order),
                         SortedKeywords(cfgFile, Head(threads.sched.order), full),
                         today_ymd(clock),
                         ReadTexts(logFile[Head(threads.sched.order)][today_ymd(clock)]),
                         threads.sched.now)]
            /\ runs' = NoteRun(runs, Head(threads.sched.order),
                               today_ymd(threads.sched.now), threads.sched.now.hm)
            /\ lastOp' = [op |-> "begin", by |-> "tick_export",
                          chat |-> Head(threads.sched.order)]

\* lines 254-259: the export reads the month and makes its folder
EnterLoop(t) ==
    /\ threads[t].pc = "month"
    /\ threads' = [threads EXCEPT ![t].pc = "loop", ![t].ym_folder = month_ym(clock)]
    /\ lastOp' = [op |-> "month", by |-> t]
    /\ UNCHANGED <<clock, env, cfgFile, logFile, outFile, events, issued, runs>>

\* lines 267-269, 274: the path of the artifact thread t is about to write,
\* in the month folder read before the loop and with the date of this turn
NextPath(t) ==
    ArtifactPath(threads[t].ym_folder, today_compact(clock),
                 safe_filename_keyword(Head(threads[t].kws)), threads[t].chat)

\* the lines of the artifact thread t is about to write
NextMatched(t) ==
    SelectSeq(threads[t].texts, LAMBDA x : Contains(Head(threads[t].kws), x))

\* lines 261-272: the loop takes the next keyword; without a match it goes
\* on, with one it opens the artifact for writing, which empties the file
OpenArtifact(t) ==
    /\ threads[t].pc = "loop"
    /\ threads[t].kws # << >>
    /\ IF NextMatched(t) = << >>
       THEN /\ threads' = [threads EXCEPT ![t].kws = Tail(@)]
            /\ UNCHANGED outFile
       ELSE /\ outFile' = WriteText(outFile, NextPath(t), << >>)
            /\ threads' = [threads EXCEPT ![t].pc = "write", ![t].path = NextPath(t),
                                          ![t].content = JoinLines(NextMatched(t))]
    /\ lastOp' = [op |-> "open", by |-> t]
    /\ UNCHANGED <<clock, env, cfgFile, logFile, events, issued, runs>>

\* lines 272-284: the content is written and the artifact joins the list
WriteContent(t) ==
    /\ threads[t].pc = "write"
    /\ outFile' = WriteText(outFile, threads[t].path,
                            Overlay(outFile[threads[t].path], threads[t].content))
    /\ threads' = [threads EXCEPT
                     ![t].pc = "loop",
                     ![t].kws = Tail(@),
                     ![t].outputs = Append(@, [keyword |-> Head(threads[t].kws),
                                               relpath |-> threads[t].path,
                                               url |-> make_public_url(env, threads[t].path)])]
    /\ lastOp' = [op |-> "write", by |-> t]
    /\ UNCHANGED <<clock, env, cfgFile, logFile, events, issued, runs>>

\* lines 286-312 and 613-628, 797-817: the loop is over and the links are
\* sent; the request is done, the tick sets last_daily_run in its copy of
\* the config and stands before save_cfg
FinishExport(t) ==
    /\ threads[t].pc = "loop"
    /\ threads[t].kws = << >>
    /\ issued' = issued \cup IssuedAt(UrlsOf(threads[t].outputs), clock)
    /\ threads' = [threads EXCEPT ![t] =
                     IF threads[t].op = "run_now" THEN Idle
                     ELSE [@ EXCEPT !.pc = "save_open",
                                    !.cfg = [@ EXCEPT !.last_daily_run =
                                                        today_ymd(threads[t].now)]]]
    /\ lastOp' = [op |-> "exported", by |-> t, chat |-> threads[t].chat,
                  outputs |-> threads[t].outputs]
    /\ UNCHANGED <<clock, env, cfgFile, logFile, outFile, events, runs>>

\* lines 159-161: save_cfg opens the config for writing, which empties it
SaveOpen(t) ==
    /\ threads[t].pc = "save_open"
    /\ cfgFile' = [cfgFile EXCEPT ![threads[t].chat] = TornFile]
    /\ threads' = [threads EXCEPT ![t].pc = "save_write",
                                  ![t].old = cfgFile[threads[t].chat]]
    /\ lastOp' = [op |-> "open_cfg", by |-> t]
    /\ UNCHANGED <<clock, env, logFile, outFile, events, issued, runs>>

\* lines 159-161: save_cfg writes the config; the command is done, the tick
\* goes on with the next config
SaveWrite(t) ==
    /\ threads[t].pc = "save_write"
    /\ cfgFile' = save_cfg(cfgFile, threads[t].chat, threads[t].cfg)
    /\ threads' = [threads EXCEPT ![t] =
                     IF threads[t].op = "tick"
                     THEN [Idle EXCEPT !.pc = "tick_next", !.op = "tick",
                                       !.order = threads[t].order,
                                       !.now = threads[t].now]
                     ELSE Idle]
    /\ lastOp' = [op |-> "saved", by |-> threads[t].op, chat |-> threads[t].chat,
                  old |-> threads[t].old, new |-> threads[t].cfg]
    /\ UNCHANGED <<clock, env, logFile, outFile, events, issued, runs>>

\* both conversations have keywords, texts of today that hold them, and the
\* daily export set to the minute it is
InitConc ==
    /\ clock = [day |-> 1, hm |-> 0]
    /\ env = [PUBLIC_BASE_URL |-> "https://bot", FILE_TOKEN |-> "s3cret"]
    /\ cfgFile = [c \in Chats |->
                   [st |-> Json,
                    obj |-> [keywords |-> IF c = "Ca" THEN <<Kw_us, Kw_a>> ELSE <<Kw_a>>,
                             daily_time |-> hhmm([day |-> 1, hm |-> 0]),
                             last_daily_run |-> None]]]
    /\ logFile = [c \in Chats |-> [d \in DayKeys |->
                    IF d # ToString(1) THEN << >>
                    ELSE IF c = "Ca" THEN AsLedger(<< <<"a">>, <<"_", "a">> >>)
                    ELSE OtherLedger]]
    /\ outFile = << >>
    /\ events = 0
    /\ issued = {}
    /\ runs = [c \in Chats |-> [d \in DayKeys |-> << >>]]
    /\ lastOp = [op |-> "init"]
    /\ threads = [t \in Tids |-> Idle]

NextConc ==
    \/ \E c \in Chats : StartRunNow(c)
    \/ \E c \in Chats, action \in {"del_kw", "disable_daily"} : StartCommand(c, action)
    \/ \E c \in Chats : StartRead(c)
    \/ StartTick
    \/ TickNext
    \/ \E t \in Tids : EnterLoop(t)
    \/ \E t \in Tids : OpenArtifact(t)
    \/ \E t \in Tids : WriteContent(t)
    \/ \E t \in Tids : FinishExport(t)
    \/ \E t \in Tids : SaveOpen(t)
    \/ \E t \in Tids : SaveWrite(t)

SpecConc == InitConc /\ [][NextConc]_vars

\* ------------------------------------------- the tick as the day turns
\* The scheduler thread runs the tick in the steps above while time passes.
\* It is the last minute of the first day; both conversations have keywords
\* and the daily export set to that minute, and conversation Ca has any
\* ledger of the day.
InitMidnight ==
    /\ clock = [day |-> 1, hm |-> MaxMinute]
    /\ env \in Envs
    /\ cfgFile = [c \in Chats |->
                   [st |-> Json,
                    obj |-> [keywords |-> IF c = "Ca" THEN <<Kw_us, Kw_a>> ELSE <<Kw_a>>,
                             daily_time |-> hhmm([day |-> 1, hm |-> MaxMinute]),
                             last_daily_run |-> None]]]
    /\ \E today \in Ledgers :
         logFile = [c \in Chats |-> [d \in DayKeys |->
                      IF d # ToString(1) THEN << >>
                      ELSE IF c = "Ca" THEN today ELSE OtherLedger]]
    /\ outFile = << >>
    /\ events = 0
    /\ issued = {}
    /\ runs = [c \in Chats |-> [d \in DayKeys |-> << >>]]
    /\ lastOp = [op |-> "init"]
    /\ threads = [t \in Tids |-> Idle]

NextMidnight ==
    \/ AdvanceClock
    \/ StartTick
    \/ TickNext
    \/ EnterLoop("sched")
    \/ OpenArtifact("sched")
    \/ WriteContent("sched")
    \/ FinishExport("sched")
    \/ SaveOpen("sched")
    \/ SaveWrite("sched")

SpecMidnight == InitMidnight /\ [][NextMidnight]_vars

\* ------------------------------------------------------------- properties
Today == today_ymd(clock)

\* the minute of now is the minute t or a later one of the day
AtOrAfter(t, now) == \E m \in Minutes : ToString(m) = t /\ m <= now.hm

\* the tick that ran last called the scheduled export of conversation c
TickRan(c) == lastOp.res[c] # NoResult

\* the texts conversation c has logged on day d, in append order
LoggedTexts(c, d) == [i \in 1..Len(logFile[c][d]) |-> logFile[c][d][i].text]

\* those of them that hold the keyword kw
Matching(c, d, kw) == SelectSeq(LoggedTexts(c, d), LAMBDA t : Contains(kw, t))

\* the keywords of the stored config of conversation c
Configured(c) == CleanKeywords(load_cfg(cfgFile, c))

\* C1: for every conversation and every day, however ticks and commands
\* follow one another, the tick calls the scheduled export at most once; a
\* conversation the tick has exported today has last_daily_run = today,
\* which keeps every later tick of the day from running it again.
C1_AtMostOneScheduledExportADay ==
    /\ \A c \in Chats, d \in DayKeys : Len(runs[c][d]) <= 1
    /\ \A c \in Chats :
         runs[c][Today] # << >> => load_cfg(cfgFile, c).last_daily_run = Today

\* C1 happens: the export ran at minute 0, daily_time was then moved to
\* minute 1, and the tick of minute 1 has not run it again
C1_Witness ==
    /\ lastOp.op = "tick"
    /\ clock.hm = 1
    /\ \E c \in Chats :
         /\ runs[c][Today] = <<0>>
         /\ load_cfg(cfgFile, c).daily_time = hhmm(clock)
         /\ ~ TickRan(c)

\* C2: a tick whose minute is daily_time or later, for a conversation with
\* daily_time set and last_daily_run not today, performs the scheduled
\* export of the day (a late tick still fires).
C2_LateTickStillFires ==
    lastOp.op = "tick" =>
      \A c \in Chats :
        LET cfg == load_cfg(lastOp.pre, c)
        IN  ( /\ lastOp.pre[c].st = Json
              /\ cfg.daily_time # None
              /\ cfg.last_daily_run # Today
              /\ AtOrAfter(cfg.daily_time, clock) ) => TickRan(c)

\* C3: when a tick has fired the scheduled export of a conversation, the
\* conversation's last_daily_run is today once the tick is over, whatever
\* the export returned and also when the export or the notification failed.
C3_LastRunRecordedWhateverTheOutcome ==
    (lastOp.op = "tick" /\ lastOp.fault.kind \in {"none", "export", "push"}) =>
      \A c \in Chats : TickRan(c) => load_cfg(cfgFile, c).last_daily_run = Today

\* C4: a conversation whose scheduled export ran on an earlier day and whose
\* daily export is enabled is exported again by a tick at or after
\* daily_time on a later day: last_daily_run of an earlier day blocks no run.
C4_RearmsAtDayRollover ==
    lastOp.op = "tick" =>
      \A c \in Chats :
        LET cfg == load_cfg(lastOp.pre, c)
        IN  ( /\ cfg.last_daily_run \in DayKeys \ {Today}
              /\ runs[c][cfg.last_daily_run] # << >>
              /\ cfg.daily_time # None
              /\ AtOrAfter(cfg.daily_time, clock) ) => TickRan(c)

\* C5: the artifact of every keyword of the returned list holds exactly the
\* texts the conversation logged today that contain the keyword, one text a
\* line, in append order, repeated texts kept, and nothing else.
C5_ArtifactIsTheMatchingTexts ==
    lastOp.op = "run_now" =>
      \A i \in 1..Len(lastOp.res.outputs) :
        LET o == lastOp.res.outputs[i]
        IN  /\ o.relpath \in DOMAIN outFile
            /\ FileLines(outFile[o.relpath], << >>)
                 = Matching(lastOp.chat, lastOp.res.day, o.keyword)

\* C6: the list an export returns has exactly one entry for every configured
\* keyword that at least one text of the day contains, and none for a keyword
\* no text contains; every entry names a file that exists.  On the ledger of
\* 5 messages with the keywords a and _ the export scans 5 texts and returns
\* 2 artifacts, of 2 lines and of 1 line.
C6_OneEntryPerMatchedKeyword ==
    lastOp.op = "run_now" =>
      LET c == lastOp.chat
          o == lastOp.res.outputs
          hit == {k \in Configured(c) : Matching(c, lastOp.res.day, k) # << >>}
          lines(i) == Len(FileLines(outFile[o[i].relpath], << >>))
      IN  /\ {o[i].keyword : i \in 1..Len(o)} = hit
          /\ Len(o) = Cardinality(hit)
          /\ \A i \in 1..Len(o) : o[i].relpath \in DOMAIN outFile
          /\ (logFile[c][Today] = AsLedger(FiveMessages) /\ Configured(c) = {Kw_a, Kw_us})
               => /\ lastOp.res.total = 5
                  /\ Len(o) = 2
                  /\ \E i, j \in 1..Len(o) :
                       /\ o[i].keyword = Kw_a /\ lines(i) = 2
                       /\ o[j].keyword = Kw_us /\ lines(j) = 1

\* C6 happens: the 5 messages were exported with three keywords configured,
\* one of which no text contains, and two artifacts came back
C6_Witness ==
    /\ lastOp.op = "run_now"
    /\ logFile[lastOp.chat][Today] = AsLedger(FiveMessages)
    /\ Configured(lastOp.chat) = Keywords
    /\ Len(lastOp.res.outputs) = 2
    /\ lastOp.res.total = 5

\* C7: an export that follows an export of the same conversation, with the
\* keywords and the ledger unchanged, returns what the first returned and
\* leaves the export directory as the first left it: the same files with
\* the same content, none longer, none added.
C7_ExportIsIdempotent ==
    (lastOp.op = "run_now" /\ lastOp.prev # NoResult) =>
      /\ outFile = lastOp.before
      /\ lastOp.res = lastOp.prev

\* C7 happens: the export ran twice in a row and wrote two artifacts
C7_Witness ==
    /\ lastOp.op = "run_now"
    /\ lastOp.prev # NoResult
    /\ lastOp.prev.kind = "Exported"
    /\ Len(lastOp.res.outputs) >= 2
    /\ \E p \in DOMAIN outFile : Len(FileLines(outFile[p], << >>)) >= 2

\* C8: an export for a conversation with no keywords configured returns
\* NoKeywordsConfigured (not ok, the hint as its summary) with an empty list
\* and writes no file, whatever the ledger of the day holds.
C8_NoKeywordsConfigured ==
    (lastOp.op = "run_now" /\ load_cfg(cfgFile, lastOp.chat).keywords = << >>) =>
      /\ lastOp.res.kind = "NoKeywordsConfigured"
      /\ ~ lastOp.res.ok
      /\ lastOp.res.outputs = << >>
      /\ outFile = lastOp.before

\* C8 happens: a conversation with logged texts of today and no keywords
\* asked for the export while artifacts of another export existed
C8_Witness ==
    /\ lastOp.op = "run_now"
    /\ load_cfg(cfgFile, lastOp.chat).keywords = << >>
    /\ logFile[lastOp.chat][Today] # << >>
    /\ outFile # << >>
    /\ lastOp.res.kind = "NoKeywordsConfigured"

\* the commands that store a config
WritingCommands == {"set_keyword", "delete_keyword", "set_daily_time", "disable_daily"}

\* a handler that only reads found no config: it got the defaults and left
\* no config behind
C9_ReadOfUnknown ==
    (lastOp.op = "read" /\ lastOp.was = Absent) =>
      /\ lastOp.cfg = DefaultCfg
      /\ cfgFile[lastOp.chat].st = Absent

\* a step that changes the stored config of a conversation is a command of
\* ops for that conversation, or the tick
C9_ChangedOnlyBy(ops) ==
    \A c \in Chats :
      cfgFile'[c] # cfgFile[c] =>
        \/ lastOp'.op \in ops /\ lastOp'.chat = c
        \/ lastOp'.op = "tick" /\ cfgFile[c].st # Absent

\* a step that creates the config of a conversation is a command of ops for
\* that conversation
C9_CreatedOnlyBy(ops) ==
    \A c \in Chats :
      (cfgFile[c].st = Absent /\ cfgFile'[c].st # Absent) =>
        (lastOp'.op \in ops /\ lastOp'.chat = c)

\* C9 as written: reading the config of a conversation without a stored
\* config gives the defaults and creates nothing; a config comes into
\* existence only by the first keyword add or the first daily-time set.
C9_CreatedByAddOrSetTime ==
    [][C9_CreatedOnlyBy({"set_keyword", "set_daily_time"})]_vars

\* C9 amended: reading the config of a conversation without a stored config
\* gives the defaults and neither creates nor changes a stored config; a
\* config comes into existence only by a command that writes it: keyword
\* add, keyword delete, daily-time set or daily-export disable.
C9_CreatedByWritingCommand ==
    /\ [] C9_ReadOfUnknown
    /\ [][C9_ChangedOnlyBy(WritingCommands) /\ C9_CreatedOnlyBy(WritingCommands)]_vars

\* C9 happens: a conversation without a config has read its config while
\* another conversation has one
C9_Witness ==
    /\ lastOp.op = "read"
    /\ lastOp.was = Absent
    /\ cfgFile[lastOp.chat].st = Absent
    /\ \E c \in Chats : cfgFile[c].st = Json

\* C10: the token of the link issued for one artifact opens that artifact
\* and is refused (403) for every other artifact.
C10_TokenScopedToOnePath ==
    (lastOp.op = "download" /\ lastOp.relpath \in DOMAIN outFile) =>
      \A u \in issued :
        (u.token # "" /\ u.token = lastOp.token) =>
          IF u.relpath = lastOp.relpath
          THEN lastOp.status = Ok200
          ELSE lastOp.status = Forbidden403

\* the minutes from one clock reading to a later one
Elapsed(from, to) == (to.day - from.day) * (MaxMinute + 1) + (to.hm - from.hm)

\* the issuances of the token and path of the request that ran last
IssuedForRequest ==
    {u \in issued : u.token # "" /\ u.token = lastOp.token /\ u.relpath = lastOp.relpath}

\* C11: a link's token has a ttl (some number of minutes, here shorter than
\* the time that passes): a request for the link's own artifact with its
\* token is answered 200 in the minute the link was issued and 403 once more
\* than ttl minutes have passed since every issuance of it.
C11_TokenExpires ==
    \E ttl \in 0..(MaxMinute - 1) :
      (lastOp.op = "download" /\ lastOp.relpath \in DOMAIN outFile
         /\ IssuedForRequest # {}) =>
        /\ (\E u \in IssuedForRequest : Elapsed(u.at, clock) = 0)
              => lastOp.status = Ok200
        /\ (\A u \in IssuedForRequest : Elapsed(u.at, clock) > ttl)
              => lastOp.status = Forbidden403

\* the request that ran last carried a token, and it is the server's
RequestTokenValid == lastOp.token # "" /\ lastOp.token = env.FILE_TOKEN

\* C12: GET /files/<path> answers 200 with the artifact only if the token
\* is valid and the artifact exists; 403 whenever the token is missing or
\* invalid, whatever FILE_TOKEN and PUBLIC_BASE_URL the server runs with;
\* 404 when the token is valid and no file is at the path.
C12_StatusByTokenAndArtifact ==
    lastOp.op = "download" =>
      /\ lastOp.status = Ok200 =>
            /\ RequestTokenValid
            /\ IsFile(outFile, Resolve(Joined(lastOp.relpath), << >>))
            /\ lastOp.body = FileContent(outFile, Resolve(Joined(lastOp.relpath), << >>))
      /\ ~ RequestTokenValid => lastOp.status = Forbidden403
      /\ (RequestTokenValid /\ lastOp.relpath = <<"nofile.txt">>)
            => lastOp.status = NotFound404

\* thread t is in the part of the export that writes artifacts: it has a
\* keyword left to visit or a file open
Writing(t) ==
    \/ threads[t].pc = "write"
    \/ threads[t].pc = "loop" /\ threads[t].kws # << >>

\* the complete artifact of keyword k for conversation c: its path and
\* what a run that nothing disturbs writes to it
WholeArtifacts ==
    {[path |-> ArtifactPath(month_ym(clock), today_compact(clock),
                            safe_filename_keyword(k), c),
      content |-> JoinLines(Matching(c, Today, k))] : c \in Chats, k \in Keywords}

\* C13: a run_now request and a tick (the two threads) are never both in
\* the artifact-writing part of the export of one conversation, and once
\* no handler is running every artifact file is the complete output of one
\* run.
C13_ExportsAreSerialized ==
    /\ ~ ( /\ Writing("web")
           /\ Writing("sched")
           /\ threads.web.chat = threads.sched.chat )
    /\ (\A t \in Tids : threads[t].pc = "idle") =>
         \A p \in DOMAIN outFile :
           \E a \in WholeArtifacts : a.path = p /\ a.content = outFile[p]

\* the threads that are between the two steps of save_cfg for conversation c
Saving(c) == {t \in Tids : threads[t].pc = "save_write" /\ threads[t].chat = c}

\* C14: a load_cfg (of a list_keyword request) that runs while a save_cfg
\* of the same conversation is under way returns the complete config from
\* before that write or the complete config it writes, never the defaults
\* of an unreadable file.
C14_ConfigWriteIsAtomic ==
    lastOp.op = "read" =>
      \A t \in Saving(lastOp.chat) :
        lastOp.cfg \in {threads[t].old.obj, threads[t].cfg}

\* C15: a save of the tick changes nothing but last_daily_run in the config
\* the file held when the save began (a command that completed after the
\* tick's load stays in effect), and a save of a command leaves
\* last_daily_run as the file held it.
C15_NoLostUpdate ==
    (lastOp.op = "saved" /\ lastOp.old.st = Json) =>
      IF lastOp.by = "tick"
      THEN /\ lastOp.new.keywords = lastOp.old.obj.keywords
           /\ lastOp.new.daily_time = lastOp.old.obj.daily_time
      ELSE lastOp.new.last_daily_run = lastOp.old.obj.last_daily_run

\* the keywords conversation c had configured before the last tick that a
\* text of today contains
MatchedBefore(c) ==
    {k \in CleanKeywords(load_cfg(lastOp.pre, c)) : Matching(c, Today, k) # << >>}

\* C16: when write_text fails for the artifact of one keyword, the export
\* still returns a result (it does not raise), the result lists exactly the
\* other matched keywords, and the artifact of each of those is on disk.
C16_WriteFailureDoesNotAbort ==
    (lastOp.op = "tick" /\ lastOp.fault.kind = "export") =>
      LET c == lastOp.fault.chat
          o == lastOp.res[c].outputs
      IN  /\ TickRan(c)
          /\ ~ lastOp.res[c].raised
          /\ {o[i].keyword : i \in 1..Len(o)} = MatchedBefore(c) \ {lastOp.fault.kw}
          /\ \A i \in 1..Len(o) : o[i].relpath \in DOMAIN outFile

\* C19: when the export or the config save of one due conversation fails in
\* a tick, every other conversation that was due in that tick is exported
\* by it and has last_daily_run = today after it.
C19_ConversationsAreIndependent ==
    (lastOp.op = "tick" /\ lastOp.fault.kind \in {"export", "save"}) =>
      \A c \in Chats \ {lastOp.fault.chat} :
        (lastOp.pre[c].st # Absent /\ IsDue(load_cfg(lastOp.pre, c), clock)) =>
          /\ TickRan(c)
          /\ load_cfg(cfgFile, c).last_daily_run = Today

\* the ledger with the text t added behind the records of conversation c of
\* today, every other record and partition as it was
WithRecord(c, t) ==
    [logFile EXCEPT ![c][Today] = Append(@, [form |-> "object", text |-> t])]

\* C18: a step that handles a text message that is not blank adds the
\* (stripped) text as the last record of the partition of its conversation
\* and day and changes no other record; every other step (a blank message,
\* a postback, an export, a keyword or schedule command's effect, a tick,
\* time passing) leaves every partition as it is, so that a partition is
\* the accepted texts in arrival order and a second read gives what the
\* first gave.
C18_LedgerIsAppendOnly ==
    [][ /\ \A c \in Chats, raw \in MessageTexts :
             handle_message(c, raw) =>
               logFile' = IF Strip(raw) = << >> THEN logFile ELSE WithRecord(c, Strip(raw))
        /\ (~ Message) => logFile' = logFile ]_vars

\* C18 happens: a conversation sent a command and then a plain text, and a
\* tick that exported it has run since; the partition holds the two texts
\* in that order
C18_Witness ==
    /\ lastOp.op = "tick"
    /\ \E c \in Chats :
         /\ TickRan(c)
         /\ LoggedTexts(c, Today) = << <<SETTIME, SP, hhmm(clock)>>, <<"a">> >>

\* the records of today's partition of conversation c that are well formed
\* and hold a text, in file order
WellFormed(c) ==
    SelectSeq(logFile[c][Today],
              LAMBDA l : l.form = "object" /\ Strip(l.text) # << >>)

\* C17: an export of a conversation with keywords, whatever lines that are
\* no record its ledger of today holds, does not fail: it scans exactly the
\* well-formed records (total is their number) and writes the artifact of
\* every keyword one of them contains.
C17_MalformedLinesSkipped ==
    (lastOp.op = "run_now" /\ Configured(lastOp.chat) # {}) =>
      /\ ~ lastOp.res.raised
      /\ lastOp.res.total = Len(WellFormed(lastOp.chat))
      /\ (\E i \in 1..Len(WellFormed(lastOp.chat)) :
             Contains(Kw_a, WellFormed(lastOp.chat)[i].text))
           => lastOp.res.kind = "Exported"

\* the file the request that ran last resolves to
RequestTarget == Resolve(Joined(lastOp.relpath), << >>)

\* C20: a request is answered with file content only when the resolved
\* target lies below the export directory itself, whatever "../" segments
\* or absolute path the request holds.
C20_ServesOnlyBelowOutDir ==
    (lastOp.op = "download" /\ lastOp.status = Ok200) =>
      /\ InOutDir(RequestTarget)
      /\ Len(RequestTarget) > Len(OutDirSegs)

\* C21: the entries of the list an export returns, for different keywords,
\* name different files, and the file of every entry holds the matches of
\* the entry's own keyword: no keyword's artifact is overwritten by that of
\* another keyword of the run.
C21_DistinctKeywordsDistinctFiles ==
    lastOp.op = "run_now" =>
      LET o == lastOp.res.outputs
      IN  /\ \A i, j \in 1..Len(o) :
               o[i].keyword # o[j].keyword => o[i].relpath # o[j].relpath
          /\ \A i \in 1..Len(o) :
               /\ o[i].relpath \in DOMAIN outFile
               /\ outFile[o[i].relpath]
                    = JoinLines(Matching(lastOp.chat, lastOp.res.day, o[i].keyword))

\* the tick that ran last exported every conversation whose stored config
\* made it due, and no other
TickFollowsConfig ==
    lastOp.op = "tick" =>
      \A c \in Chats :
        TickRan(c) <=> (lastOp.pre[c].st # Absent /\ IsDue(load_cfg(lastOp.pre, c), clock))

\* C22: an export on request (the text command or the postback) leaves the
\* stored config of every conversation as it was, daily_time and
\* last_daily_run included, and adds no scheduled run to the day; the tick
\* decides by the stored config and the clock alone, so that it runs the
\* scheduled export of the day whether or not an export on request ran
\* before it.
C22_RunNowLeavesConfig ==
    /\ [] TickFollowsConfig
    /\ [][ lastOp'.op = "run_now" => (cfgFile' = cfgFile /\ runs' = runs) ]_vars

\* C22 happens: a conversation with daily_time set asked for the export by
\* the text command, and the tick of that minute has then run its scheduled
\* export
C22_Witness ==
    /\ lastOp.op = "tick"
    /\ \E c \in Chats :
         /\ TickRan(c)
         /\ LoggedTexts(c, Today) = << <<SETTIME, SP, hhmm(clock)>>, <<RUNNOW>> >>
         /\ load_cfg(cfgFile, c).last_daily_run = Today

\* C23: while the tick exports a conversation, and when it stores the
\* config after the export, everything it dated carries the day of the
\* tick's one clock reading: the ledger partition the export read, the
\* month folder, the path of every artifact written, and last_daily_run
\* in the config the tick stores.
C23_OneDateThroughoutRun ==
    LET t == threads.sched
    IN  (t.op = "tick" /\ t.pc \in {"month", "loop", "write", "save_open", "save_write"}) =>
          /\ t.day = today_ymd(t.now)
          /\ t.ym_folder \in {None, month_ym(t.now)}
          /\ \A i \in 1..Len(t.outputs) :
                t.outputs[i].relpath
                  = ArtifactPath(month_ym(t.now), today_compact(t.now),
                                 safe_filename_keyword(t.outputs[i].keyword), t.chat)
          /\ t.pc \in {"save_open", "save_write"}
                => t.cfg.last_daily_run = today_ymd(t.now)

====
